---- MODULE Spec2Model ----
(***************************************************************************)
(* Equihash proof-of-work: BasicSolve, OptimisedSolve, CollideBranches and *)
(* IsValidSolution of src/crypto/equihash.cpp.                             *)
(*                                                                         *)
(* The template Equihash<N,K> is instantiated at small parameters so that  *)
(* every base hash state can be enumerated.  The Blake2b digest of a seed  *)
(* is an uninterpreted function of the seed: the variable base holds, for  *)
(* every seed, the ExpandedHashLength digest bytes the primitive returns.  *)
(* A row is the pair (remaining hash bytes, index history) that the code   *)
(* keeps packed in one byte array at offsets 0 and len.                    *)
(***************************************************************************)
EXTENDS Integers, Sequences, FiniteSets, TLC

\* Template parameters of Equihash<N,K>.
N == 3
K == 2

\* Width in bits of a truncated index (eh_trunc): the source truncates an
\* index of ilen bits to its TruncBits = 8 leading bits; the model keeps the
\* leading TruncBits bits of its shorter indices.
TruncBits == 1

\* Number of rows of the list a single reduction round is run on (RoundSpec).
MaxRows == 6

\* Rows of the list a truncated reduction round is run on in isolation
\* (FilterSpec).
FilterRows == 2

\* sizeof(eh_index) and sizeof(eh_trunc), in bytes.
EhIndexSize == 4
EhTruncSize == 1

CollisionBitLength == N \div (K + 1)
CollisionByteLength == (CollisionBitLength + 7) \div 8
ExpandedHashLength == (K + 1) * CollisionByteLength
InitSize == 2 ^ (CollisionBitLength + 1)
SolnSize == 2 ^ K

Indices == 0 .. (InitSize - 1)

\* The digest bytes the hash primitive may return: every padding bit above
\* the CollisionBitLength significant bits is set, so that the masking of
\* StepRow's constructor is what clears them.
DigestBytes == { 256 - 2 ^ CollisionBitLength + v : v \in 0 .. (2 ^ CollisionBitLength - 1) }
Digests == [1 .. ExpandedHashLength -> DigestBytes]

Labels == { "ListGeneration", "ListSorting", "ListColliding", "RoundEnd",
            "FinalSorting", "FinalColliding", "PartialGeneration",
            "PartialSorting", "PartialSubtreeEnd", "PartialIndexEnd",
            "PartialEnd" }
NoLabel == "none"

VARIABLES
    base,          \* eh_HashState: seed -> digest bytes
    pc,            \* position of the running solver, or "idle" / "cancelled"
    solver,        \* which solver is (or was last) running
    X,             \* BasicSolve: std::vector<FullStepRow<FullWidth>> X
    Xt,            \* OptimisedSolve: std::vector<TruncatedStepRow> Xt
    Xc,            \* the auxiliary buffer of merges of the current round
    i,             \* scan cursor / generation counter
    posFree,       \* write cursor of the in-place compaction
    r,             \* round counter
    hashLen,       \* remaining hash bytes
    lenIndices,    \* bytes of index history per row
    solns,         \* std::set<std::vector<eh_index>> solns
    partialSolns,  \* std::vector<std::shared_ptr<eh_trunc>> partialSolns
    ps,            \* position in partialSolns of the partial solution in hand
    Xopt,          \* Phase B: vector<optional<vector<FullStepRow>>> X
    ic,            \* Phase B: the list ic
    icv,           \* Phase B: the list icv being generated
    leaf,          \* Phase B: loop variable i over the 2^K leaves
    rr,            \* Phase B: loop variable r over the slots
    rti,           \* Phase B: rti
    invalidCount,  \* Phase B: invalidCount
    basicRet,      \* what BasicSolve returned to its caller
    optRet,        \* what OptimisedSolve returned to its caller
    roundIn,       \* the sorted list the reduction round in hand started from
    firstLabel,    \* label of the first probe invocation of the running call
    asked,         \* labels the probe was invoked with
    declined,      \* labels at which the probe returned false
    probeFired,    \* the probe has returned true
    lateProbe,     \* the probe was invoked after it had returned true
    cancelLabel,   \* label at which SolverCancelled was raised
    stages,        \* stages of the solver that have run
    oob,           \* a list was accessed out of bounds
    soln,          \* IsValidSolution: the proposed solution
    verdict        \* IsValidSolution: its return value

solverVars == << X, Xt, Xc, i, posFree, r, hashLen, lenIndices, solns,
                 partialSolns, ps, Xopt, ic, icv, leaf, rr, rti, invalidCount,
                 roundIn, oob >>
probeVars == << firstLabel, asked, declined, probeFired, lateProbe,
                cancelLabel >>
vars == << base, pc, solver, solverVars, basicRet, optRet, probeVars, stages,
           soln, verdict >>

----------------------------------------------------------------------------
(* Arithmetic helpers *)

RECURSIVE Xor(_, _)
Xor(a, b) ==
    IF a = 0 THEN b
    ELSE IF b = 0 THEN a
    ELSE (((a % 2) + (b % 2)) % 2) + 2 * Xor(a \div 2, b \div 2)

Min(a, b) == IF a < b THEN a ELSE b

\* The sequence s with its elements in reverse order.
Reverse(s) == [k \in 1 .. Len(s) |-> s[Len(s) + 1 - k]]

\* The elements of a sequence, as a set.
Range(s) == { s[k] : k \in 1 .. Len(s) }

----------------------------------------------------------------------------
(* Index truncation *)

TruncateIndex(idx, ilen) ==
    (idx \div (2 ^ (ilen - TruncBits))) % (2 ^ TruncBits)

UntruncateIndex(t, rem, ilen) ==
    t * (2 ^ (ilen - TruncBits)) + rem

----------------------------------------------------------------------------
(* Row algebra *)

\* StepRow<WIDTH>::StepRow(n, k, base_state, i): the digest of seed i with the
\* first byte of every CollisionByteLength block masked.
StepRowHash(b, idx) ==
    [p \in 1 .. ExpandedHashLength |->
        IF (p - 1) % CollisionByteLength = 0
        THEN b[idx][p] % (2 ^ (8 - (8 * CollisionByteLength - CollisionBitLength)))
        ELSE b[idx][p]]

FullStepRow(b, idx) ==
    [hash |-> StepRowHash(b, idx), indices |-> << idx >>]

TruncatedStepRow(b, idx, ilen) ==
    [hash |-> StepRowHash(b, idx), indices |-> << TruncateIndex(idx, ilen) >>]

\* a.IndicesBefore(b, len, lenIndices)
IndicesBefore(a, b) == a.indices[1] < b.indices[1]

\* DistinctIndices(a, b, len, lenIndices)
DistinctIndices(a, b) ==
    LET all == a.indices \o b.indices
    IN  Cardinality(Range(all)) = Len(all)

\* The merge constructors FullStepRow(a, b, len, lenIndices, trim) and
\* TruncatedStepRow(a, b, len, lenIndices, trim).
MergeRowsSwapped(a, b, len, trim) ==
    [hash    |-> [p \in 1 .. (len - trim) |-> Xor(a.hash[p + trim], b.hash[p + trim])],
     indices |-> IF IndicesBefore(a, b)
                 THEN b.indices \o a.indices
                 ELSE a.indices \o b.indices]

MergeRows(a, b, len, trim) ==
    [hash    |-> [p \in 1 .. (len - trim) |-> Xor(a.hash[p + trim], b.hash[p + trim])],
     indices |-> IF IndicesBefore(a, b)
                 THEN a.indices \o b.indices
                 ELSE b.indices \o a.indices]

\* StepRow<WIDTH>::IsZero(len)
IsZero(a, len) == \A p \in 1 .. len : a.hash[p] = 0

\* HasCollision(a, b, l)
HasCollision(a, b, l) == \A p \in 1 .. l : a.hash[p] = b.hash[p]

\* CompareSR(len): lexicographic comparison of the first len bytes.
RECURSIVE LexLess(_, _, _, _)
LexLess(h1, h2, p, len) ==
    IF p > len THEN FALSE
    ELSE IF h1[p] < h2[p] THEN TRUE
    ELSE IF h1[p] > h2[p] THEN FALSE
    ELSE LexLess(h1, h2, p + 1, len)

CompareSR(a, b, len) == LexLess(a.hash, b.hash, 1, len)

\* std::sort(begin, end, CompareSR(len)).  The order of rows that compare
\* equal is unspecified; the model offers the two extreme outcomes: ties kept
\* in their order (rev = FALSE) or ties reversed (rev = TRUE).
RECURSIVE InsertSorted(_, _, _)
InsertSorted(s, row, len) ==
    IF s = << >> THEN << row >>
    ELSE IF CompareSR(row, s[Len(s)], len)
         THEN Append(InsertSorted(SubSeq(s, 1, Len(s) - 1), row, len), s[Len(s)])
         ELSE Append(s, row)

RECURSIVE StableSort(_, _)
StableSort(s, len) ==
    IF s = << >> THEN << >>
    ELSE InsertSorted(StableSort(SubSeq(s, 1, Len(s) - 1), len), s[Len(s)], len)

SortRows(s, len, rev) ==
    IF rev THEN StableSort(Reverse(s), len) ELSE StableSort(s, len)

----------------------------------------------------------------------------
(* The collision scan shared by the rounds *)

\* The loop condition i < X.size() - 1: X.size() is unsigned, so for an empty
\* list the right-hand side wraps around to the largest size_t and the
\* condition holds for every i.
ScanContinues(pos, size) == IF size = 0 THEN TRUE ELSE pos < size - 1

\* j = 1; while (i+j < X.size() && HasCollision(X[i], X[i+j], clen)) j++;
RECURSIVE RunLength(_, _, _, _)
RunLength(list, pos, j, clen) ==
    IF pos + j < Len(list) /\ HasCollision(list[pos + 1], list[pos + j + 1], clen)
    THEN RunLength(list, pos, j + 1, clen)
    ELSE j

\* The pairs (l, m) in the order of the loops
\* for (l = 0; l < j - 1; l++) for (m = l + 1; m < j; m++).
PairSeqAdjacent(l, m, j) == [q \in 1 .. (j - 1) |-> << q - 1, q >>]

RECURSIVE PairSeq(_, _, _)
PairSeq(l, m, j) ==
    IF l >= j - 1 THEN << >>
    ELSE IF m >= j THEN PairSeq(l + 1, l + 2, j)
    ELSE << << l, m >> >> \o PairSeq(l, m + 1, j)

\* 2d) / 2e): while (posFree < limit && Xc.size() > 0)
\*                { X[posFree++] = Xc.back(); Xc.pop_back(); }
RECURSIVE StoreInPlaceEager(_, _, _, _)
StoreInPlaceEager(list, buf, free, limit) ==
    IF free < Len(list) /\ Len(buf) > 0
    THEN StoreInPlaceEager([list EXCEPT ![free + 1] = buf[Len(buf)]],
                           SubSeq(buf, 1, Len(buf) - 1), free + 1, limit)
    ELSE [list |-> list, buf |-> buf, free |-> free]

RECURSIVE StoreInPlace(_, _, _, _)
StoreInPlace(list, buf, free, limit) ==
    IF free < limit /\ Len(buf) > 0
    THEN StoreInPlace([list EXCEPT ![free + 1] = buf[Len(buf)]],
                      SubSeq(buf, 1, Len(buf) - 1), free + 1, limit)
    ELSE [list |-> list, buf |-> buf, free |-> free]

\* 2e), 2f), 2g): drain Xc, append the overflow or erase the unused tail.
FinishRound(list, buf, free) ==
    LET st == StoreInPlace(list, buf, free, Len(list))
    IN  IF Len(st.buf) > 0 THEN st.list \o st.buf
        ELSE IF st.free < Len(st.list) THEN SubSeq(st.list, 1, st.free)
        ELSE st.list

----------------------------------------------------------------------------
(* The verifier *)

\* One pass of the loop over adjacent pairs of IsValidSolution: FALSE when a
\* pair fails a check, otherwise the list Xc of the merges.
PairFailsNoCollision(list, g, len) ==
    \/ IndicesBefore(list[2 * g], list[2 * g - 1])
    \/ ~ DistinctIndices(list[2 * g - 1], list[2 * g])

PairFailsNoOrder(list, g, len) ==
    \/ ~ HasCollision(list[2 * g - 1], list[2 * g], CollisionByteLength)
    \/ ~ DistinctIndices(list[2 * g - 1], list[2 * g])

PairFailsNoDistinct(list, g, len) ==
    \/ ~ HasCollision(list[2 * g - 1], list[2 * g], CollisionByteLength)
    \/ IndicesBefore(list[2 * g], list[2 * g - 1])

PairFails(list, g, len) ==
    \/ ~ HasCollision(list[2 * g - 1], list[2 * g], CollisionByteLength)
    \/ IndicesBefore(list[2 * g], list[2 * g - 1])
    \/ ~ DistinctIndices(list[2 * g - 1], list[2 * g])

RECURSIVE VerifyLevels(_, _)
VerifyLevels(list, len) ==
    IF Len(list) > 1
    THEN IF \E g \in 1 .. ((Len(list) + 1) \div 2) : PairFails(list, g, len)
         THEN FALSE
         ELSE VerifyLevels([g \in 1 .. ((Len(list) + 1) \div 2) |->
                               MergeRows(list[2 * g - 1], list[2 * g], len,
                                         CollisionByteLength)],
                           len - CollisionByteLength)
    ELSE IsZero(list[1], len)

IsValidSolution(b, s) ==
    IF Len(s) # SolnSize THEN FALSE
    ELSE VerifyLevels([p \in 1 .. Len(s) |-> FullStepRow(b, s[p])],
                      ExpandedHashLength)

\* The loop for (i = 0; i < X.size(); i += 2) reads X[i+1]: on a list of odd
\* size greater than 1 whose complete pairs all pass, it reads X[X.size()].
RECURSIVE VerifyReadsBeyond(_, _)
VerifyReadsBeyond(list, len) ==
    IF Len(list) > 1
    THEN IF \E g \in 1 .. (Len(list) \div 2) : PairFails(list, g, len)
         THEN FALSE
         ELSE IF Len(list) % 2 = 1 THEN TRUE
         ELSE VerifyReadsBeyond([g \in 1 .. (Len(list) \div 2) |->
                                    MergeRows(list[2 * g - 1], list[2 * g], len,
                                              CollisionByteLength)],
                                len - CollisionByteLength)
    ELSE FALSE

IsValidSolutionReadsBeyond(b, s) ==
    IF Len(s) # SolnSize THEN FALSE
    ELSE VerifyReadsBeyond([p \in 1 .. Len(s) |-> FullStepRow(b, s[p])],
                           ExpandedHashLength)

----------------------------------------------------------------------------
(* The cancellation probe *)

\* if (cancelled(label)) throw solver_cancelled;
\* c is what the probe returns at this invocation.
ThrowsExceptRoundEnd(label, c) == c /\ label \notin { "RoundEnd", "PartialIndexEnd" }

ThrowsExceptFirst(label, c) == c /\ label # "ListGeneration"

Throws(label, c) == c

ProbeStep(label, c, next) ==
    /\ firstLabel' = IF firstLabel = NoLabel THEN label ELSE firstLabel
    /\ asked' = asked \cup { label }
    /\ declined' = IF c THEN declined ELSE declined \cup { label }
    /\ lateProbe' = (lateProbe \/ probeFired)
    /\ probeFired' = (probeFired \/ c)
    /\ cancelLabel' = IF Throws(label, c) /\ cancelLabel = NoLabel
                      THEN label ELSE cancelLabel
    /\ pc' = IF Throws(label, c) THEN "cancelled" ELSE next

NoRet == [returned |-> FALSE, solns |-> { }]

\* The locals of a solver call before its first statement.
FreshLocals ==
    /\ X' = << >> /\ Xt' = << >> /\ Xc' = << >>
    /\ i' = 0 /\ posFree' = 0 /\ r' = 0
    /\ hashLen' = ExpandedHashLength
    /\ solns' = { } /\ partialSolns' = << >> /\ ps' = 0
    /\ Xopt' = << >> /\ ic' = << >> /\ icv' = << >>
    /\ leaf' = 0 /\ rr' = 0 /\ rti' = 0 /\ invalidCount' = 0
    /\ roundIn' = << >> /\ oob' = FALSE
    /\ firstLabel' = NoLabel /\ asked' = { } /\ declined' = { }
    /\ probeFired' = FALSE /\ lateProbe' = FALSE /\ cancelLabel' = NoLabel
    /\ stages' = { }

----------------------------------------------------------------------------
(* BasicSolve *)

\* if (X.size() > 1) ... else return
FinalEntryUnguarded(list, sortPc) == sortPc

FinalEntry(list, sortPc) == IF Len(list) > 1 THEN sortPc ELSE "return"

\* for (r = 1; r < K && X.size() > 0; r++)
RoundEntry(round, list, roundPc, sortPc) ==
    IF round < K /\ Len(list) > 0 THEN roundPc ELSE FinalEntry(list, sortPc)

\* 2c) of BasicSolve: the merges of the run [pos, pos+j) with distinct indices.
RECURSIVE CollectFull(_, _, _, _)
CollectFull(pairs, list, pos, len) ==
    IF pairs = << >> THEN << >>
    ELSE LET a == list[pos + pairs[1][1] + 1]
             b == list[pos + pairs[1][2] + 1]
         IN  (IF DistinctIndices(a, b)
              THEN << MergeRows(a, b, len, CollisionByteLength) >>
              ELSE << >>)
             \o CollectFull(Tail(pairs), list, pos, len)

FinalSolutionsNoDistinct(list, pos, j, len) ==
    { MergeRows(list[pos + pr[1] + 1], list[pos + pr[2] + 1], len, 0).indices :
        pr \in Range(PairSeq(0, 1, j)) }

\* The final round's pairs: the index histories inserted into solns.
FinalSolutions(list, pos, j, len) ==
    { MergeRows(list[pos + pr[1] + 1], list[pos + pr[2] + 1], len, 0).indices :
        pr \in { q \in Range(PairSeq(0, 1, j)) :
                   DistinctIndices(list[pos + q[1] + 1], list[pos + q[2] + 1]) } }

CallBasicSolve ==
    /\ pc = "idle" /\ solver = "none"
    /\ FreshLocals
    /\ lenIndices' = EhIndexSize
    /\ solver' = "basic"
    /\ pc' = "b_gen"
    /\ UNCHANGED << base, basicRet, optRet, soln, verdict >>

BasicGenerate ==
    /\ pc = "b_gen" /\ solver = "basic"
    /\ \E c \in BOOLEAN :
         LET list == Append(X, FullStepRow(base, i))
         IN  /\ X' = list
             /\ i' = i + 1
             /\ r' = 1
             /\ stages' = stages \cup { "generate" }
             /\ ProbeStep("ListGeneration", c,
                          IF i + 1 < InitSize THEN "b_gen"
                          ELSE RoundEntry(1, list, "b_sort", "b_fsort"))
    /\ UNCHANGED << base, solver, Xt, Xc, posFree, hashLen, lenIndices, solns,
                    partialSolns, ps, Xopt, ic, icv, leaf, rr, rti,
                    invalidCount, roundIn, oob, basicRet, optRet, soln, verdict >>

BasicSort ==
    /\ pc = "b_sort" /\ solver = "basic"
    /\ \E c \in BOOLEAN, rev \in BOOLEAN :
         LET list == SortRows(X, CollisionByteLength, rev)
         IN  /\ X' = list
             /\ roundIn' = list
             /\ i' = 0 /\ posFree' = 0 /\ Xc' = << >>
             /\ stages' = stages \cup { "sort" }
             /\ ProbeStep("ListSorting", c,
                          IF ScanContinues(0, Len(list)) THEN "b_collide"
                          ELSE "b_compact")
    /\ UNCHANGED << base, solver, Xt, r, hashLen, lenIndices, solns,
                    partialSolns, ps, Xopt, ic, icv, leaf, rr, rti,
                    invalidCount, oob, basicRet, optRet, soln, verdict >>

\* One iteration of the scan loop: 2b), 2c), 2d), i += j and the probe.
BasicCollide ==
    /\ pc = "b_collide" /\ solver = "basic"
    /\ IF Len(X) = 0
       THEN /\ oob' = TRUE /\ pc' = "undefined"
            /\ UNCHANGED << X, Xc, i, posFree, stages, probeVars >>
       ELSE \E c \in BOOLEAN :
              LET j  == RunLength(X, i, 1, CollisionByteLength)
                  st == StoreInPlace(X, Xc \o CollectFull(PairSeq(0, 1, j), X, i, hashLen),
                                     posFree, i + j)
              IN  /\ X' = st.list /\ Xc' = st.buf /\ posFree' = st.free
                  /\ i' = i + j
                  /\ oob' = oob
                  /\ stages' = stages \cup { "collide" }
                  /\ ProbeStep("ListColliding", c,
                               IF ScanContinues(i + j, Len(X)) THEN "b_collide"
                               ELSE "b_compact")
    /\ UNCHANGED << base, solver, Xt, r, hashLen, lenIndices, solns,
                    partialSolns, ps, Xopt, ic, icv, leaf, rr, rti,
                    invalidCount, roundIn, basicRet, optRet, soln, verdict >>

\* 2e), 2f), 2g), the bookkeeping of the round and the RoundEnd probe.
BasicCompact ==
    /\ pc = "b_compact" /\ solver = "basic"
    /\ \E c \in BOOLEAN :
         LET list == FinishRound(X, Xc, posFree)
         IN  /\ X' = list
             /\ Xc' = << >>
             /\ posFree' = Min(posFree + Len(Xc), Len(X))
             /\ hashLen' = hashLen - CollisionByteLength
             /\ lenIndices' = 2 * lenIndices
             /\ r' = r + 1
             /\ stages' = stages \cup { "compact" }
             /\ ProbeStep("RoundEnd", c,
                          RoundEntry(r + 1, list, "b_sort", "b_fsort"))
    /\ UNCHANGED << base, solver, Xt, i, solns, partialSolns, ps, Xopt, ic,
                    icv, leaf, rr, rti, invalidCount, roundIn, oob, basicRet,
                    optRet, soln, verdict >>

BasicFinalSort ==
    /\ pc = "b_fsort" /\ solver = "basic"
    /\ \E c \in BOOLEAN, rev \in BOOLEAN :
         LET list == SortRows(X, hashLen, rev)
         IN  /\ X' = list
             /\ i' = 0
             /\ stages' = stages \cup { "finalsort" }
             /\ ProbeStep("FinalSorting", c,
                          IF ScanContinues(0, Len(list)) THEN "b_fcollide"
                          ELSE "return")
    /\ UNCHANGED << base, solver, Xt, Xc, posFree, r, hashLen, lenIndices,
                    solns, partialSolns, ps, Xopt, ic, icv, leaf, rr, rti,
                    invalidCount, roundIn, oob, basicRet, optRet, soln, verdict >>

BasicFinalCollide ==
    /\ pc = "b_fcollide" /\ solver = "basic"
    /\ \E c \in BOOLEAN :
         LET j == RunLength(X, i, 1, hashLen)
         IN  /\ solns' = solns \cup FinalSolutions(X, i, j, hashLen)
             /\ i' = i + j
             /\ stages' = stages \cup { "finalcollide" }
             /\ ProbeStep("FinalColliding", c,
                          IF ScanContinues(i + j, Len(X)) THEN "b_fcollide"
                          ELSE "return")
    /\ UNCHANGED << base, solver, X, Xt, Xc, posFree, r, hashLen, lenIndices,
                    partialSolns, ps, Xopt, ic, icv, leaf, rr, rti,
                    invalidCount, roundIn, oob, basicRet, optRet, soln, verdict >>

\* return solns; the locals are destroyed.
BasicReturn ==
    /\ pc = "return" /\ solver = "basic"
    /\ basicRet' = [returned |-> TRUE, solns |-> solns]
    /\ pc' = "idle"
    /\ X' = << >> /\ Xc' = << >> /\ roundIn' = << >>
    /\ UNCHANGED << base, solver, Xt, i, posFree, r, hashLen, lenIndices,
                    solns, partialSolns, ps, Xopt, ic, icv, leaf, rr, rti,
                    invalidCount, oob, optRet, probeVars, stages, soln, verdict >>

----------------------------------------------------------------------------
(* OptimisedSolve, Phase A: the solve over truncated indices *)

RecreateSize == UntruncateIndex(1, 0, CollisionBitLength + 1)

\* TruncatedStepRow(a, b, len, lenIndices, trim)
MergeTruncated(a, b, len, trim) ==
    [hash    |-> [p \in 1 .. (len - trim) |-> Xor(a.hash[p + trim], b.hash[p + trim])],
     indices |-> IF IndicesBefore(a, b)
                 THEN a.indices \o b.indices
                 ELSE b.indices \o a.indices]

\* The inner loop of IsProbablyDuplicate: the first y >= from that is not yet
\* checked and carries the same byte as z; 0 when there is none.
FindPairAdjacent(ind, checked, z, y) ==
    IF y > Len(checked) THEN 0
    ELSE IF ~ checked[y] /\ ind[z] = ind[y] THEN y
    ELSE 0

RECURSIVE FindPair(_, _, _, _)
FindPair(ind, checked, z, y) ==
    IF y > Len(checked) THEN 0
    ELSE IF ~ checked[y] /\ ind[z] = ind[y] THEN y
    ELSE FindPair(ind, checked, z, y + 1)

RECURSIVE PairUp(_, _, _)
PairUp(ind, checked, z) ==
    IF z > Len(checked) THEN checked
    ELSE IF checked[z] THEN PairUp(ind, checked, z + 1)
    ELSE LET y == FindPair(ind, checked, z, z + 1)
         IN  IF y = 0 THEN PairUp(ind, checked, z + 1)
             ELSE PairUp(ind, [checked EXCEPT ![y] = TRUE, ![z] = TRUE], z + 1)

IsProbablyDuplicate(ind, len) ==
    LET checked == PairUp(ind, [z \in 1 .. len |-> FALSE], 1)
    IN  \A z \in 1 .. len : checked[z]

\* 2c) of the truncated rounds: the merges of the run that pass the filter.
RECURSIVE CollectTruncated(_, _, _, _, _)
CollectTruncated(pairs, list, pos, len, lenInd) ==
    IF pairs = << >> THEN << >>
    ELSE LET Xi == MergeTruncated(list[pos + pairs[1][1] + 1],
                                  list[pos + pairs[1][2] + 1],
                                  len, CollisionByteLength)
         IN  (IF ~ (IsZero(Xi, len - CollisionByteLength)
                    /\ IsProbablyDuplicate(Xi.indices, (2 * lenInd) \div EhTruncSize))
              THEN << Xi >> ELSE << >>)
             \o CollectTruncated(Tail(pairs), list, pos, len, lenInd)

\* The final truncated round: one partial solution per pair of the run.
RECURSIVE CollectPartial(_, _, _, _)
CollectPartial(pairs, list, pos, len) ==
    IF pairs = << >> THEN << >>
    ELSE << MergeTruncated(list[pos + pairs[1][1] + 1],
                           list[pos + pairs[1][2] + 1], len, 0).indices >>
         \o CollectPartial(Tail(pairs), list, pos, len)

\* for (partialSoln : partialSolns): the next partial solution, or the end.
PhaseBEntry(pidx, plist) == IF pidx <= Len(plist) THEN "p_gen" ELSE "return"

\* Leaving the block of Phase A: Xt goes out of scope and is destroyed.
EntersPhaseB(next) == next \in { "p_gen", "return" }

\* if (Xt.size() > 1) ... ; then Phase B.
OptFinalEntry(list, plist) ==
    IF Len(list) > 1 THEN "o_fsort" ELSE PhaseBEntry(1, plist)

OptRoundEntry(round, list, plist) ==
    IF round < K /\ Len(list) > 0 THEN "o_sort" ELSE OptFinalEntry(list, plist)

\* The locals of the loop over the partial solutions, at its start.
PartialFresh ==
    /\ Xopt' = << >> /\ leaf' = 0 /\ icv' = << >> /\ ic' = << >>
    /\ rr' = 0 /\ rti' = 0

CallOptimisedSolve ==
    /\ pc = "idle" /\ solver = "basic"
    /\ FreshLocals
    /\ lenIndices' = EhTruncSize
    /\ solver' = "optimised"
    /\ pc' = "o_gen"
    /\ UNCHANGED << base, basicRet, optRet, soln, verdict >>

OptGenerate ==
    /\ pc = "o_gen" /\ solver = "optimised"
    /\ \E c \in BOOLEAN :
         LET list == Append(Xt, TruncatedStepRow(base, i, CollisionBitLength + 1))
             next == IF i + 1 < InitSize THEN "o_gen"
                     ELSE OptRoundEntry(1, list, partialSolns)
         IN  /\ Xt' = IF EntersPhaseB(next) /\ ~ c THEN << >> ELSE list
             /\ i' = IF EntersPhaseB(next) /\ ~ c THEN 0 ELSE i + 1
             /\ ps' = 1
             /\ r' = 1
             /\ stages' = stages \cup { "generate" }
             /\ ProbeStep("ListGeneration", c, next)
    /\ UNCHANGED << base, solver, X, Xc, posFree, hashLen, lenIndices, solns,
                    partialSolns, Xopt, ic, icv, leaf, rr, rti,
                    invalidCount, roundIn, oob, basicRet, optRet, soln, verdict >>

OptSort ==
    /\ pc = "o_sort" /\ solver = "optimised"
    /\ \E c \in BOOLEAN, rev \in BOOLEAN :
         LET list == SortRows(Xt, CollisionByteLength, rev)
         IN  /\ Xt' = list
             /\ roundIn' = list
             /\ i' = 0 /\ posFree' = 0 /\ Xc' = << >>
             /\ stages' = stages \cup { "sort" }
             /\ ProbeStep("ListSorting", c,
                          IF ScanContinues(0, Len(list)) THEN "o_collide"
                          ELSE "o_compact")
    /\ UNCHANGED << base, solver, X, r, hashLen, lenIndices, solns,
                    partialSolns, ps, Xopt, ic, icv, leaf, rr, rti,
                    invalidCount, oob, basicRet, optRet, soln, verdict >>

OptCollide ==
    /\ pc = "o_collide" /\ solver = "optimised"
    /\ IF Len(Xt) = 0
       THEN /\ oob' = TRUE /\ pc' = "undefined"
            /\ UNCHANGED << Xt, Xc, i, posFree, stages, probeVars >>
       ELSE \E c \in BOOLEAN :
              LET j  == RunLength(Xt, i, 1, CollisionByteLength)
                  st == StoreInPlace(Xt, Xc \o CollectTruncated(PairSeq(0, 1, j), Xt, i,
                                                               hashLen, lenIndices),
                                     posFree, i + j)
              IN  /\ Xt' = st.list /\ Xc' = st.buf /\ posFree' = st.free
                  /\ i' = i + j
                  /\ oob' = oob
                  /\ stages' = stages \cup { "collide" }
                  /\ ProbeStep("ListColliding", c,
                               IF ScanContinues(i + j, Len(Xt)) THEN "o_collide"
                               ELSE "o_compact")
    /\ UNCHANGED << base, solver, X, r, hashLen, lenIndices, solns,
                    partialSolns, ps, Xopt, ic, icv, leaf, rr, rti,
                    invalidCount, roundIn, basicRet, optRet, soln, verdict >>

OptCompact ==
    /\ pc = "o_compact" /\ solver = "optimised"
    /\ \E c \in BOOLEAN :
         LET list == FinishRound(Xt, Xc, posFree)
             next == OptRoundEntry(r + 1, list, partialSolns)
         IN  /\ Xt' = IF EntersPhaseB(next) /\ ~ c THEN << >> ELSE list
             /\ Xc' = << >>
             /\ posFree' = 0
             /\ i' = 0
             /\ hashLen' = hashLen - CollisionByteLength
             /\ lenIndices' = 2 * lenIndices
             /\ r' = r + 1
             /\ stages' = stages \cup { "compact" }
             /\ ProbeStep("RoundEnd", c, next)
    /\ UNCHANGED << base, solver, X, solns, partialSolns, ps, Xopt, ic,
                    icv, leaf, rr, rti, invalidCount, roundIn, oob, basicRet,
                    optRet, soln, verdict >>

OptFinalSort ==
    /\ pc = "o_fsort" /\ solver = "optimised"
    /\ \E c \in BOOLEAN, rev \in BOOLEAN :
         LET list == SortRows(Xt, hashLen, rev)
             next == IF ScanContinues(0, Len(list)) THEN "o_fcollide"
                     ELSE PhaseBEntry(1, partialSolns)
         IN  /\ Xt' = list
             /\ i' = 0
             /\ roundIn' = << >>
             /\ stages' = stages \cup { "finalsort" }
             /\ ProbeStep("FinalSorting", c, next)
    /\ UNCHANGED << base, solver, X, Xc, posFree, r, hashLen, lenIndices,
                    solns, partialSolns, ps, Xopt, ic, icv, leaf, rr, rti,
                    invalidCount, oob, basicRet, optRet, soln, verdict >>

\* One run of the final truncated round; after the last run Xt is destroyed
\* and Phase B begins.
OptFinalCollide ==
    /\ pc = "o_fcollide" /\ solver = "optimised"
    /\ \E c \in BOOLEAN :
         LET j     == RunLength(Xt, i, 1, hashLen)
             plist == partialSolns \o CollectPartial(PairSeq(0, 1, j), Xt, i, hashLen)
             more  == ScanContinues(i + j, Len(Xt))
         IN  /\ partialSolns' = plist
             /\ i' = IF more \/ c THEN i + j ELSE 0
             /\ Xt' = IF more \/ c THEN Xt ELSE << >>
             /\ stages' = stages \cup { "finalcollide" }
             /\ ProbeStep("FinalColliding", c,
                          IF more THEN "o_fcollide" ELSE PhaseBEntry(1, plist))
    /\ UNCHANGED << base, solver, X, Xc, posFree, r, hashLen, lenIndices,
                    solns, ps, Xopt, ic, icv, leaf, rr, rti,
                    invalidCount, roundIn, oob, basicRet, optRet, soln, verdict >>

----------------------------------------------------------------------------
(* OptimisedSolve, Phase B: the reconstruction of the full indices *)

\* boost::optional<std::vector<FullStepRow>>
None == [full |-> FALSE, rows |-> << >>]
Some(list) == [full |-> TRUE, rows |-> list]

\* IsValidBranch(a, len, ilen, t)
IsValidBranch(a, ilen, t) == TruncateIndex(a.indices[1], ilen) = t

\* 2c) of CollideBranches: the merges of the run [pos, pos+j) that have
\* distinct indices and match the expected pair of truncations.
RECURSIVE CollectBranchesLeftOnly(_, _, _, _, _, _, _, _)
CollectBranchesLeftOnly(pairs, list, pos, hlen, clen, ilen, lt, rt) ==
    IF pairs = << >> THEN << >>
    ELSE LET a == list[pos + pairs[1][1] + 1]
             b == list[pos + pairs[1][2] + 1]
         IN  (IF DistinctIndices(a, b)
              THEN IF IsValidBranch(a, ilen, lt)
                   THEN << MergeRows(a, b, hlen, clen) >>
                   ELSE IF IsValidBranch(b, ilen, lt)
                        THEN << MergeRows(b, a, hlen, clen) >>
                        ELSE << >>
              ELSE << >>)
             \o CollectBranchesLeftOnly(Tail(pairs), list, pos, hlen, clen, ilen, lt, rt)

RECURSIVE CollectBranches(_, _, _, _, _, _, _, _)
CollectBranches(pairs, list, pos, hlen, clen, ilen, lt, rt) ==
    IF pairs = << >> THEN << >>
    ELSE LET a == list[pos + pairs[1][1] + 1]
             b == list[pos + pairs[1][2] + 1]
         IN  (IF DistinctIndices(a, b)
              THEN IF IsValidBranch(a, ilen, lt) /\ IsValidBranch(b, ilen, rt)
                   THEN << MergeRows(a, b, hlen, clen) >>
                   ELSE IF IsValidBranch(b, ilen, lt) /\ IsValidBranch(a, ilen, rt)
                        THEN << MergeRows(b, a, hlen, clen) >>
                        ELSE << >>
              ELSE << >>)
             \o CollectBranches(Tail(pairs), list, pos, hlen, clen, ilen, lt, rt)

\* The scan loop of CollideBranches followed by 2e), 2f), 2g).
RECURSIVE BranchScan(_, _, _, _, _, _, _, _, _)
BranchScan(list, pos, free, buf, hlen, clen, ilen, lt, rt) ==
    IF ScanContinues(pos, Len(list))
    THEN IF Len(list) = 0
         THEN [list |-> list, oob |-> TRUE]
         ELSE LET j  == RunLength(list, pos, 1, clen)
                  st == StoreInPlace(list,
                                     buf \o CollectBranches(PairSeq(0, 1, j), list, pos,
                                                            hlen, clen, ilen, lt, rt),
                                     free, pos + j)
              IN  BranchScan(st.list, pos + j, st.free, st.buf,
                             hlen, clen, ilen, lt, rt)
    ELSE [list |-> FinishRound(list, buf, free), oob |-> FALSE]

CollideBranches(list, hlen, clen, ilen, lt, rt) ==
    BranchScan(list, 0, 0, << >>, hlen, clen, ilen, lt, rt)

\* X[r] = boost::none
ClearSlotKeeps(vec, slot) == vec

ClearSlot(vec, slot) == [vec EXCEPT ![slot + 1] = None]

\* for (r ...; r <= K; ...) { if (r < X.size()) { if (X[r]) merge else store }
\*                            else store }
SlotEntry(slot, vec) ==
    IF slot <= K /\ slot < Len(vec) /\ vec[slot + 1].full THEN "p_merge"
    ELSE "p_store"

PartialGenerate ==
    /\ pc = "p_gen" /\ solver = "optimised"
    /\ \E c \in BOOLEAN :
         LET newIndex == UntruncateIndex(partialSolns[ps][leaf + 1], i,
                                         CollisionBitLength + 1)
             list     == Append(icv, FullStepRow(base, newIndex))
             done     == ~ (i + 1 < RecreateSize) /\ ~ c
         IN  /\ icv' = list
             /\ i' = i + 1
             /\ ic' = IF done THEN list ELSE ic
             /\ hashLen' = IF done THEN ExpandedHashLength ELSE hashLen
             /\ lenIndices' = IF done THEN EhIndexSize ELSE lenIndices
             /\ rti' = IF done THEN leaf ELSE rti
             /\ rr' = IF done THEN 0 ELSE rr
             /\ stages' = stages \cup { "partialgenerate" }
             /\ ProbeStep("PartialGeneration", c,
                          IF i + 1 < RecreateSize THEN "p_gen"
                          ELSE SlotEntry(0, Xopt))
    /\ UNCHANGED << base, solver, X, Xt, Xc, posFree, r, solns, partialSolns,
                    ps, Xopt, leaf, invalidCount, roundIn, oob, basicRet,
                    optRet, soln, verdict >>

\* 2c) Merge the lists: append X[r] to ic and sort.
PartialMerge ==
    /\ pc = "p_merge" /\ solver = "optimised"
    /\ \E c \in BOOLEAN, rev \in BOOLEAN :
         LET list == SortRows(ic \o Xopt[rr + 1].rows, hashLen, rev)
         IN  /\ ic' = list
             /\ roundIn' = list
             /\ stages' = stages \cup { "partialsort" }
             /\ ProbeStep("PartialSorting", c, "p_collide")
    /\ UNCHANGED << base, solver, X, Xt, Xc, i, posFree, r, hashLen,
                    lenIndices, solns, partialSolns, ps, Xopt, icv, leaf, rr,
                    rti, invalidCount, oob, basicRet, optRet, soln, verdict >>

\* CollideBranches, 2d), the bookkeeping of the subtree and the probe.
PartialCollide ==
    /\ pc = "p_collide" /\ solver = "optimised"
    /\ LET lti == rti - 2 ^ rr
           res == CollideBranches(ic, hashLen, CollisionByteLength,
                                  CollisionBitLength + 1,
                                  partialSolns[ps][lti + 1],
                                  partialSolns[ps][rti + 1])
       IN  IF res.oob
           THEN /\ oob' = TRUE /\ pc' = "undefined"
                /\ UNCHANGED << ic, Xopt, hashLen, lenIndices, rti, rr, ps, i,
                                leaf, icv, invalidCount, roundIn, stages,
                                probeVars >>
           ELSE IF Len(res.list) = 0
           THEN /\ invalidCount' = invalidCount + 1
                /\ ps' = ps + 1
                /\ PartialFresh
                /\ i' = 0
                /\ roundIn' = << >>
                /\ stages' = stages \cup { "collidebranches" }
                /\ pc' = PhaseBEntry(ps + 1, partialSolns)
                /\ UNCHANGED << hashLen, lenIndices, oob, probeVars >>
           ELSE \E c \in BOOLEAN :
                  LET vec == ClearSlot(Xopt, rr)
                  IN  /\ ic' = res.list
                      /\ Xopt' = vec
                      /\ hashLen' = hashLen - CollisionByteLength
                      /\ lenIndices' = 2 * lenIndices
                      /\ rti' = lti
                      /\ rr' = rr + 1
                      /\ stages' = stages \cup { "collidebranches" }
                      /\ ProbeStep("PartialSubtreeEnd", c, SlotEntry(rr + 1, vec))
                      /\ UNCHANGED << ps, i, leaf, icv, invalidCount, roundIn,
                                      oob >>
    /\ UNCHANGED << base, solver, X, Xt, Xc, posFree, r, solns, partialSolns,
                    basicRet, optRet, soln, verdict >>

\* X[r] = *ic or X.push_back(ic), break, and the PartialIndexEnd probe.
PartialStore ==
    /\ pc = "p_store" /\ solver = "optimised"
    /\ \E c \in BOOLEAN :
         LET more == leaf + 1 < SolnSize
         IN  /\ Xopt' = IF rr > K THEN Xopt
                        ELSE IF rr < Len(Xopt) THEN [Xopt EXCEPT ![rr + 1] = Some(ic)]
                        ELSE Append(Xopt, Some(ic))
             /\ leaf' = IF c THEN leaf ELSE leaf + 1
             /\ i' = IF c THEN i ELSE 0
             /\ icv' = IF c THEN icv ELSE << >>
             /\ roundIn' = << >>
             /\ stages' = stages \cup { "partialstore" }
             /\ ProbeStep("PartialIndexEnd", c, IF more THEN "p_gen" ELSE "p_top")
    /\ UNCHANGED << base, solver, X, Xt, Xc, posFree, r, hashLen, lenIndices,
                    solns, partialSolns, ps, ic, rr, rti, invalidCount,
                    oob, basicRet, optRet, soln, verdict >>

\* We are at the top of the tree: assert(X.size() == K+1), insert the rows of
\* X[K] into solns, and the PartialEnd probe.
PartialTop ==
    /\ pc = "p_top" /\ solver = "optimised"
    /\ IF Len(Xopt) # K + 1
       THEN /\ pc' = "aborted"
            /\ UNCHANGED << solns, ps, Xopt, leaf, icv, ic, rr, rti, i, oob,
                            stages, probeVars >>
       ELSE IF ~ Xopt[K + 1].full
       THEN /\ oob' = TRUE /\ pc' = "undefined"
            /\ UNCHANGED << solns, ps, Xopt, leaf, icv, ic, rr, rti, i,
                            stages, probeVars >>
       ELSE \E c \in BOOLEAN :
              /\ solns' = solns \cup { row.indices : row \in Range(Xopt[K + 1].rows) }
              /\ stages' = stages \cup { "partialtop" }
              /\ ProbeStep("PartialEnd", c, PhaseBEntry(ps + 1, partialSolns))
              /\ IF c
                 THEN UNCHANGED << ps, Xopt, leaf, icv, ic, rr, rti, i >>
                 ELSE /\ ps' = ps + 1 /\ PartialFresh /\ i' = 0
              /\ oob' = oob
    /\ UNCHANGED << base, solver, X, Xt, Xc, posFree, r, hashLen, lenIndices,
                    partialSolns, invalidCount, roundIn, basicRet, optRet,
                    soln, verdict >>

\* return solns; the locals are destroyed.
OptReturn ==
    /\ pc = "return" /\ solver = "optimised"
    /\ optRet' = [returned |-> TRUE, solns |-> solns]
    /\ pc' = "idle"
    /\ Xopt' = << >> /\ ic' = << >> /\ icv' = << >> /\ Xt' = << >> /\ Xc' = << >>
    /\ roundIn' = << >>
    /\ UNCHANGED << base, solver, X, i, posFree, r, hashLen, lenIndices,
                    solns, partialSolns, ps, leaf, rr, rti, invalidCount,
                    oob, basicRet, probeVars, stages, soln, verdict >>

----------------------------------------------------------------------------
(* Specifications *)

Init ==
    /\ base \in [Indices -> Digests]
    /\ pc = "idle" /\ solver = "none"
    /\ X = << >> /\ Xt = << >> /\ Xc = << >>
    /\ i = 0 /\ posFree = 0 /\ r = 0
    /\ hashLen = ExpandedHashLength /\ lenIndices = EhIndexSize
    /\ solns = { } /\ partialSolns = << >> /\ ps = 0
    /\ Xopt = << >> /\ ic = << >> /\ icv = << >>
    /\ leaf = 0 /\ rr = 0 /\ rti = 0 /\ invalidCount = 0
    /\ roundIn = << >> /\ oob = FALSE
    /\ basicRet = NoRet /\ optRet = NoRet
    /\ firstLabel = NoLabel /\ asked = { } /\ declined = { }
    /\ probeFired = FALSE /\ lateProbe = FALSE /\ cancelLabel = NoLabel
    /\ stages = { }
    /\ soln = << >> /\ verdict = "none"

Next ==
    \/ CallBasicSolve
    \/ BasicGenerate
    \/ BasicSort
    \/ BasicCollide
    \/ BasicCompact
    \/ BasicFinalSort
    \/ BasicFinalCollide
    \/ BasicReturn
    \/ CallOptimisedSolve
    \/ OptGenerate
    \/ OptSort
    \/ OptCollide
    \/ OptCompact
    \/ OptFinalSort
    \/ OptFinalCollide
    \/ PartialGenerate
    \/ PartialMerge
    \/ PartialCollide
    \/ PartialStore
    \/ PartialTop
    \/ OptReturn

Spec == Init /\ [][Next]_vars

\* IsValidSolution applied, on every base hash state, to every proposed
\* solution of SolnSize - 1 or SolnSize indices and to every sequence of
\* SolnSize indices followed by one more index.
VerifierInputs ==
    UNION { [1 .. n -> Indices] : n \in (SolnSize - 1) .. SolnSize }
      \cup { Append(s, 0) : s \in [1 .. SolnSize -> Indices] }

VerifierInit ==
    /\ base \in [Indices -> Digests]
    /\ soln \in VerifierInputs
    /\ pc = "verify" /\ solver = "none"
    /\ X = << >> /\ Xt = << >> /\ Xc = << >>
    /\ i = 0 /\ posFree = 0 /\ r = 0
    /\ hashLen = ExpandedHashLength /\ lenIndices = EhIndexSize
    /\ solns = { } /\ partialSolns = << >> /\ ps = 0
    /\ Xopt = << >> /\ ic = << >> /\ icv = << >>
    /\ leaf = 0 /\ rr = 0 /\ rti = 0 /\ invalidCount = 0
    /\ roundIn = << >> /\ oob = FALSE
    /\ basicRet = NoRet /\ optRet = NoRet
    /\ firstLabel = NoLabel /\ asked = { } /\ declined = { }
    /\ probeFired = FALSE /\ lateProbe = FALSE /\ cancelLabel = NoLabel
    /\ stages = { }
    /\ verdict = "none"

\* bool IsValidSolution(base_state, soln)
Verify ==
    /\ pc = "verify"
    /\ IF IsValidSolutionReadsBeyond(base, soln)
       THEN oob' = TRUE /\ verdict' = "undefined"
       ELSE /\ oob' = oob
            /\ verdict' = IF IsValidSolution(base, soln) THEN "accept" ELSE "reject"
    /\ pc' = "verified"
    /\ UNCHANGED << base, solver, X, Xt, Xc, i, posFree, r, hashLen,
                    lenIndices, solns, partialSolns, ps, Xopt, ic, icv, leaf,
                    rr, rti, invalidCount, roundIn, basicRet, optRet,
                    probeVars, stages, soln >>

VerifierNext == Verify

VerifierSpec == VerifierInit /\ [][VerifierNext]_vars

\* One reduction round of BasicSolve run on a list of MaxRows rows, as the
\* rounds of the instantiations with more seeds are: the state is the one
\* BasicSolve is in after generating MaxRows rows, and the round's steps are
\* those of BasicSolve.  Of each digest the first block and one value for the
\* remaining bytes are drawn.
RoundSeeds == 0 .. (MaxRows - 1)

RoundDigests ==
    { d \in Digests :
        \A p, q \in (CollisionByteLength + 1) .. ExpandedHashLength : d[p] = d[q] }

RoundInit ==
    /\ base \in [RoundSeeds -> RoundDigests]
    /\ X = [p \in 1 .. MaxRows |-> FullStepRow(base, p - 1)]
    /\ pc = "b_sort" /\ solver = "basic"
    /\ Xt = << >> /\ Xc = << >>
    /\ i = MaxRows /\ posFree = 0 /\ r = 1
    /\ hashLen = ExpandedHashLength /\ lenIndices = EhIndexSize
    /\ solns = { } /\ partialSolns = << >> /\ ps = 0
    /\ Xopt = << >> /\ ic = << >> /\ icv = << >>
    /\ leaf = 0 /\ rr = 0 /\ rti = 0 /\ invalidCount = 0
    /\ roundIn = << >> /\ oob = FALSE
    /\ basicRet = NoRet /\ optRet = NoRet
    /\ firstLabel = "ListGeneration"
    /\ asked = { "ListGeneration" } /\ declined = { "ListGeneration" }
    /\ probeFired = FALSE /\ lateProbe = FALSE /\ cancelLabel = NoLabel
    /\ stages = { "generate" }
    /\ soln = << >> /\ verdict = "none"

RoundNext ==
    \/ BasicSort
    \/ BasicCollide
    \/ BasicCompact

RoundSpec == RoundInit /\ [][RoundNext]_vars

\* One truncated reduction round of OptimisedSolve run on a list of FilterRows
\* rows, as the rounds r >= 1 of the instantiations with more rounds are: the
\* rows carry a history of 2^(r-1) truncated indices, ordered as the merge
\* constructor leaves them, and the round's steps are those of OptimisedSolve.
FilterHashes ==
    { StepRowHash([s \in { 0 } |-> d], 0) : d \in Digests }

FilterHistories(n) ==
    { h \in [1 .. n -> 0 .. (2 ^ TruncBits - 1)] :
        \A q \in 1 .. (n - 1) : q % 2 = 1 => h[q] <= h[q + 1] }

FilterInit ==
    /\ base = [s \in Indices |-> [p \in 1 .. ExpandedHashLength |-> 255]]
    /\ \E n \in 1 .. 2 :
          /\ lenIndices = n * EhTruncSize
          /\ Xt \in [1 .. FilterRows ->
                       [hash : FilterHashes, indices : FilterHistories(n)]]
    /\ pc = "o_sort" /\ solver = "optimised"
    /\ X = << >> /\ Xc = << >>
    /\ i = InitSize /\ posFree = 0 /\ r = 1
    /\ hashLen = ExpandedHashLength
    /\ solns = { } /\ partialSolns = << >> /\ ps = 1
    /\ Xopt = << >> /\ ic = << >> /\ icv = << >>
    /\ leaf = 0 /\ rr = 0 /\ rti = 0 /\ invalidCount = 0
    /\ roundIn = << >> /\ oob = FALSE
    /\ basicRet = NoRet /\ optRet = NoRet
    /\ firstLabel = "ListGeneration"
    /\ asked = { "ListGeneration" } /\ declined = { "ListGeneration" }
    /\ probeFired = FALSE /\ lateProbe = FALSE /\ cancelLabel = NoLabel
    /\ stages = { "generate" }
    /\ soln = << >> /\ verdict = "none"

FilterNext ==
    \/ OptSort
    \/ OptCollide
    \/ OptCompact

FilterSpec == FilterInit /\ [][FilterNext]_vars

\* The three entry points on their inputs, and the last reduction round of
\* either solver run on a list of 1 .. FilterRows rows, as a round after the
\* first is in the instantiations with more rounds: the rows carry a history
\* of two indices, ordered as the merge constructors leave them.
ZeroBase == [s \in Indices |-> [p \in 1 .. ExpandedHashLength |-> 255]]

ShortHashes ==
    { h \in FilterHashes :
        \A p, q \in (CollisionByteLength + 1) .. ExpandedHashLength : h[p] = h[q] }

FullHistories ==
    { h \in [1 .. 2 -> Indices] : h[1] < h[2] }

NoCallState ==
    /\ Xc = << >> /\ i = InitSize /\ posFree = 0
    /\ hashLen = ExpandedHashLength
    /\ solns = { } /\ partialSolns = << >>
    /\ Xopt = << >> /\ ic = << >> /\ icv = << >>
    /\ leaf = 0 /\ rr = 0 /\ rti = 0 /\ invalidCount = 0
    /\ roundIn = << >> /\ oob = FALSE
    /\ basicRet = NoRet /\ optRet = NoRet
    /\ probeFired = FALSE /\ lateProbe = FALSE /\ cancelLabel = NoLabel
    /\ soln = << >> /\ verdict = "none"

ShortInit ==
    /\ base = ZeroBase
    /\ NoCallState
    /\ r = K - 1 /\ ps = 1
    /\ firstLabel = "ListGeneration"
    /\ asked = { "ListGeneration" } /\ declined = { "ListGeneration" }
    /\ stages = { "generate" }
    /\ \E n \in 1 .. FilterRows :
          \/ /\ solver = "basic" /\ pc = "b_sort"
             /\ lenIndices = 2 * EhIndexSize
             /\ X \in [1 .. n -> [hash : ShortHashes, indices : FullHistories]]
             /\ Xt = << >>
          \/ /\ solver = "optimised" /\ pc = "o_sort"
             /\ lenIndices = 2 * EhTruncSize
             /\ Xt \in [1 .. n -> [hash : ShortHashes, indices : FilterHistories(2)]]
             /\ X = << >>

BoundsVerifierInit ==
    /\ base \in [Indices -> RoundDigests]
    /\ soln \in VerifierInputs
    /\ pc = "verify" /\ solver = "none"
    /\ X = << >> /\ Xt = << >> /\ Xc = << >>
    /\ i = 0 /\ posFree = 0 /\ r = 0
    /\ hashLen = ExpandedHashLength /\ lenIndices = EhIndexSize
    /\ solns = { } /\ partialSolns = << >> /\ ps = 0
    /\ Xopt = << >> /\ ic = << >> /\ icv = << >>
    /\ leaf = 0 /\ rr = 0 /\ rti = 0 /\ invalidCount = 0
    /\ roundIn = << >> /\ oob = FALSE
    /\ basicRet = NoRet /\ optRet = NoRet
    /\ firstLabel = NoLabel /\ asked = { } /\ declined = { }
    /\ probeFired = FALSE /\ lateProbe = FALSE /\ cancelLabel = NoLabel
    /\ stages = { }
    /\ verdict = "none"

BoundsInit ==
    \/ Init
    \/ ShortInit
    \/ BoundsVerifierInit

BoundsNext ==
    \/ Next
    \/ Verify

BoundsSpec == BoundsInit /\ [][BoundsNext]_vars

----------------------------------------------------------------------------
(* Properties *)

\* C1: every index sequence in the set BasicSolve returns (the probe never
\* having returned true) is accepted by IsValidSolution on the same base.
C1_BasicSolveSound ==
    basicRet.returned => \A s \in basicRet.solns : IsValidSolution(base, s)

C1_Witness == basicRet.returned /\ basicRet.solns # { }

\* C2: every index sequence in the set OptimisedSolve returns is accepted by
\* IsValidSolution on the same base, and every row of the top slot X[K] of the
\* reconstruction has all of its remaining hash bytes zero.
C2_OptimisedSolveSound ==
    /\ optRet.returned => \A s \in optRet.solns : IsValidSolution(base, s)
    /\ (pc = "p_top" /\ Len(Xopt) = K + 1)
          => \A row \in Range(Xopt[K + 1].rows) : IsZero(row, hashLen)

\* C3: the set OptimisedSolve returns is a subset of the set BasicSolve
\* returns for the same base.
C3_OptimisedSubsetOfBasic ==
    (basicRet.returned /\ optRet.returned) => optRet.solns \subseteq basicRet.solns


----------------------------------------------------------------------------
(* The verifier, stated over the index tree of the proposed solution *)

\* The masked digest of seed s[p], XORed over the leaves lo .. hi.
RECURSIVE XorLeaves(_, _, _, _, _)
XorLeaves(b, s, lo, hi, p) ==
    IF lo > hi THEN 0
    ELSE Xor(StepRowHash(b, s[lo])[p], XorLeaves(b, s, lo + 1, hi, p))

\* The node g of level l covers the leaves NodeLo .. NodeLo + 2^l - 1.
NodeLo(l, g) == (g - 1) * (2 ^ l) + 1
TreeNodes == { << l, g >> \in (1 .. K) \X (1 .. SolnSize) : g <= 2 ^ (K - l) }

NodeOk(b, s, l, g) ==
    LET lo   == NodeLo(l, g)
        half == 2 ^ (l - 1)
        mid  == lo + half
        hi   == lo + 2 * half - 1
    IN  /\ \A p \in ((l - 1) * CollisionByteLength + 1) .. (l * CollisionByteLength) :
              XorLeaves(b, s, lo, mid - 1, p) = XorLeaves(b, s, mid, hi, p)
        /\ s[lo] < s[mid]
        /\ \A p, q \in lo .. hi : p # q => s[p] # s[q]

TreeValid(b, s) ==
    /\ Len(s) = SolnSize
    /\ \A n \in TreeNodes : NodeOk(b, s, n[1], n[2])
    /\ \A p \in (K * CollisionByteLength + 1) .. ExpandedHashLength :
          XorLeaves(b, s, 1, SolnSize, p) = 0

\* The sequence s with the two sibling subtrees of node g of level l swapped.
SwapSiblings(s, l, g) ==
    LET lo   == NodeLo(l, g)
        half == 2 ^ (l - 1)
    IN  [p \in 1 .. Len(s) |->
            IF p >= lo /\ p < lo + half THEN s[p + half]
            ELSE IF p >= lo + half /\ p < lo + 2 * half THEN s[p - half]
            ELSE s[p]]

HasDuplicate(s) == \E p, q \in 1 .. Len(s) : p # q /\ s[p] = s[q]

\* C4: IsValidSolution returns true exactly when the sequence has 2^K indices
\* and, in the tree rebuilt over adjacent pairs, every pair collides on the
\* leading CollisionByteLength bytes, the left history orders before the
\* right one, the combined indices are pairwise distinct, and the last row's
\* remaining bytes are all zero.
C4_VerifierCharacterised ==
    pc = "verified" => ((verdict = "accept") <=> TreeValid(base, soln))

C4_Witness ==
    /\ pc = "verified" /\ verdict = "reject"
    /\ Len(soln) = SolnSize /\ ~ HasDuplicate(soln)
    /\ \A n \in TreeNodes : n[1] = 1 => NodeOk(base, soln, n[1], n[2])

\* C5: when IsValidSolution accepts a sequence, it rejects every sequence
\* obtained from it by swapping the two sibling subtrees of one internal node.
C5_SiblingSwapRejected ==
    (pc = "verified" /\ verdict = "accept")
        => \A n \in TreeNodes : ~ IsValidSolution(base, SwapSiblings(soln, n[1], n[2]))

C5_Witness == pc = "verified" /\ verdict = "accept"

\* C6: IsValidSolution rejects every sequence of 2^K indices in which one
\* index value occurs at two positions.
C6_DuplicateRejected ==
    (pc = "verified" /\ Len(soln) = SolnSize /\ HasDuplicate(soln))
        => verdict = "reject"

C6_Witness ==
    /\ pc = "verified" /\ verdict = "reject" /\ HasDuplicate(soln)
    /\ \E p \in 1 .. SolnSize, v \in Indices :
          IsValidSolution(base, [soln EXCEPT ![p] = v])


----------------------------------------------------------------------------
(* The solvers *)

\* Canonical subtree ordering of an index history of 2^l indices: at every
\* internal node the leftmost index of the left half is below the leftmost
\* index of the right half.
Canonical(h) ==
    \A l \in 1 .. K, g \in 1 .. SolnSize :
        (g * (2 ^ l) <= Len(h)) => h[NodeLo(l, g)] < h[NodeLo(l, g) + 2 ^ (l - 1)]

WellFormed(h) == Canonical(h) /\ ~ HasDuplicate(h)

\* The full rows held by the solvers.
FullRows ==
    Range(X) \cup Range(ic) \cup Range(icv)
      \cup (IF solver = "basic" THEN Range(Xc) ELSE { })
      \cup UNION { Range(Xopt[q].rows) : q \in 1 .. Len(Xopt) }

\* C7: every returned index sequence and every full row held in a list has
\* pairwise-distinct indices in canonical subtree order, and the two halves of
\* a merged row's history are the histories of two rows of the list the round
\* started from, unchanged.
C7_HistoriesCanonical ==
    /\ \A row \in FullRows : WellFormed(row.indices)
    /\ \A h \in solns \cup basicRet.solns \cup optRet.solns : WellFormed(h)
    /\ (solver = "basic" /\ roundIn # << >>)
          => \A row \in Range(Xc) \cup { X[q] : q \in 1 .. Min(posFree, Len(X)) } :
                \E a, b \in Range(roundIn) :
                    /\ row.indices = a.indices \o b.indices
                    /\ a.indices[1] < b.indices[1]

C7_Witness ==
    /\ optRet.returned /\ optRet.solns # { } /\ basicRet.solns # { }

\* C8: once the probe has returned true the solver is stopped with
\* SolverCancelled: the probe is not invoked again, no step of the solver
\* runs, and no solution set is returned.
C8_CancelStops ==
    /\ [](probeFired =>
            /\ pc = "cancelled"
            /\ ~ lateProbe
            /\ (solver = "basic" => ~ basicRet.returned)
            /\ (solver = "optimised" => ~ optRet.returned))
    /\ [][pc = "cancelled" => FALSE]_vars

C8_Witness == pc = "cancelled" /\ solver = "optimised" /\ solns # { }

\* The stages in the order of their first execution, and the stage each
\* label's probe follows.
StageOrder ==
    << "generate", "sort", "collide", "compact", "finalsort", "finalcollide",
       "partialgenerate", "partialstore", "partialsort", "collidebranches",
       "partialtop" >>

LabelOrder ==
    << "ListGeneration", "ListSorting", "ListColliding", "RoundEnd",
       "FinalSorting", "FinalColliding", "PartialGeneration",
       "PartialIndexEnd", "PartialSorting", "PartialSubtreeEnd", "PartialEnd" >>

StagesUpTo(label) ==
    { StageOrder[q] : q \in { n \in 1 .. Len(StageOrder) :
                                \E m \in n .. Len(LabelOrder) : LabelOrder[m] = label } }

\* C9: the first probe invocation carries the label ListGeneration; when the
\* probe has been asked with a label L and has never returned false at L, the
\* solver has raised SolverCancelled at L and no stage after L's stage has
\* run; for L = ListGeneration exactly one row has been generated and no sort
\* or scan has run.
C9_CancelAtLabel ==
    /\ firstLabel \in { NoLabel, "ListGeneration" }
    /\ \A L \in asked \ declined :
          /\ pc = "cancelled"
          /\ cancelLabel = L
          /\ stages \subseteq StagesUpTo(L)
    /\ ("ListGeneration" \in asked \ declined)
          => /\ Len(X) + Len(Xt) <= 1
             /\ stages = { "generate" }

C9_Witness ==
    /\ pc = "cancelled" /\ cancelLabel = "PartialSorting"
    /\ "PartialSorting" \notin declined

\* The number of positions of a sequence that hold x.
Count(seq, x) == Cardinality({ q \in 1 .. Len(seq) : seq[q] = x })

\* The pairs l < m among the first upto rows of a sorted list that lie in one
\* run and have distinct indices, and the merge of such a pair.
RunPairs(list, upto) ==
    { pr \in (1 .. upto) \X (1 .. upto) :
        /\ pr[1] < pr[2]
        /\ HasCollision(list[pr[1]], list[pr[2]], CollisionByteLength)
        /\ DistinctIndices(list[pr[1]], list[pr[2]]) }

PairMerge(list, pr, len) ==
    MergeRows(list[pr[1]], list[pr[2]], len, CollisionByteLength)

\* seq holds, as a multiset, exactly the merges of the pairs of RunPairs.
HoldsMerges(seq, list, upto, len) ==
    /\ Len(seq) = Cardinality(RunPairs(list, upto))
    /\ \A pr \in RunPairs(list, upto) :
          Count(seq, PairMerge(list, pr, len))
            = Cardinality({ q \in RunPairs(list, upto) :
                              PairMerge(list, q, len) = PairMerge(list, pr, len) })

\* C10: during the scan of a reduction round of BasicSolve the write cursor
\* stays at or below the scan cursor, the rows not yet scanned are untouched,
\* and the written slots together with Xc hold exactly the merges of the runs
\* scanned so far; after the round X holds, as a multiset, exactly the merges
\* of all pairs of one run with distinct indices.
C10_RoundIsAllMerges ==
    (solver = "basic" /\ roundIn # << >>) =>
        /\ (pc \in { "b_collide", "b_compact" }) =>
              /\ posFree <= i
              /\ Len(X) = Len(roundIn)
              /\ \A q \in (i + 1) .. Len(X) : X[q] = roundIn[q]
              /\ HoldsMerges(SubSeq(X, 1, posFree) \o Xc, roundIn,
                             Min(i, Len(roundIn)), hashLen)
        /\ ("compact" \in stages /\ "finalsort" \notin stages) =>
              HoldsMerges(X, roundIn, Len(roundIn), hashLen + CollisionByteLength)

C10_Witness ==
    /\ solver = "basic" /\ pc = "b_collide"
    /\ Len(Xc) > 0 /\ i + 1 < Len(X)

----------------------------------------------------------------------------
(* The truncated phase *)

\* Every byte value of the history h occurs at an even number of positions.
AllEven(h) == \A v \in Range(h) : Count(h, v) % 2 = 0

\* The pairs l < m among the first upto rows of a sorted list that lie in one
\* run, and the truncated merge of such a pair.
TruncPairs(list, upto) ==
    { pr \in (1 .. upto) \X (1 .. upto) :
        /\ pr[1] < pr[2]
        /\ HasCollision(list[pr[1]], list[pr[2]], CollisionByteLength) }

TruncMerge(list, pr, len) ==
    MergeTruncated(list[pr[1]], list[pr[2]], len, CollisionByteLength)

\* The merged row has all of its remaining hash bytes zero and every byte
\* value of its history an even number of times.
ZeroAndEven(row, len) == IsZero(row, len) /\ AllEven(row.indices)

\* C11: in a truncated reduction round the rows kept (written in place or
\* pending in Xc) are, as a multiset, exactly the merges of the pairs of the
\* runs scanned so far other than those whose remaining hash bytes are all
\* zero and whose history of 2*lenIndices truncated indices has every byte
\* value an even number of times; a merge whose remaining hash is not all
\* zero is always kept.
C11_FilterRejectsExactly ==
    (solver = "optimised" /\ pc \in { "o_collide", "o_compact" } /\ roundIn # << >>) =>
        LET kept   == SubSeq(Xt, 1, posFree) \o Xc
            rem    == hashLen - CollisionByteLength
            pairs  == TruncPairs(roundIn, Min(i, Len(roundIn)))
            passed == { pr \in pairs :
                          ~ ZeroAndEven(TruncMerge(roundIn, pr, hashLen), rem) }
        IN  /\ Len(kept) = Cardinality(passed)
            /\ \A pr \in passed :
                  Count(kept, TruncMerge(roundIn, pr, hashLen))
                    = Cardinality({ q \in passed :
                                      TruncMerge(roundIn, q, hashLen)
                                        = TruncMerge(roundIn, pr, hashLen) })
            /\ \A pr \in pairs :
                  ~ IsZero(TruncMerge(roundIn, pr, hashLen), rem)
                      => \E q \in 1 .. Len(kept) :
                            kept[q] = TruncMerge(roundIn, pr, hashLen)

\* A pair has been scanned whose merge was rejected although no two adjacent
\* bytes of its four-byte history are equal.
C11_Witness ==
    /\ solver = "optimised" /\ pc = "o_compact" /\ roundIn # << >>
    /\ \E pr \in TruncPairs(roundIn, Min(i, Len(roundIn))) :
          LET m == TruncMerge(roundIn, pr, hashLen)
          IN  /\ ZeroAndEven(m, hashLen - CollisionByteLength)
              /\ Len(m.indices) = 4
              /\ m.indices[1] # m.indices[2]
              /\ m.indices[2] # m.indices[3]
              /\ Len(Xc) + posFree < Cardinality(TruncPairs(roundIn, Min(i, Len(roundIn))))

----------------------------------------------------------------------------
(* The reconstruction phase *)

\* The state after CollideBranches has returned a non-empty list: ic is the
\* list it returned, roundIn the sorted list it was called on.
AfterCollideBranches ==
    /\ solver = "optimised" /\ roundIn # << >> /\ rr >= 1
    /\ \/ pc \in { "p_merge", "p_store" }
       \/ pc = "cancelled" /\ cancelLabel = "PartialSubtreeEnd"

\* The expected truncations lt and rt of that call.
ExpectedLeft == partialSolns[ps][rti + 1]
ExpectedRight == partialSolns[ps][rti + 2 ^ (rr - 1) + 1]

\* Row a as the left and row b as the right branch: the rows collide, their
\* indices are pairwise distinct, and their leading indices truncate to lt
\* and rt.
BranchPair(a, b, lt, rt) ==
    /\ HasCollision(a, b, CollisionByteLength)
    /\ \A p \in 1 .. Len(a.indices), q \in 1 .. Len(b.indices) :
          a.indices[p] # b.indices[q]
    /\ \A p, q \in 1 .. Len(a.indices) : p # q => a.indices[p] # a.indices[q]
    /\ \A p, q \in 1 .. Len(b.indices) : p # q => b.indices[p] # b.indices[q]
    /\ TruncateIndex(a.indices[1], CollisionBitLength + 1) = lt
    /\ TruncateIndex(b.indices[1], CollisionBitLength + 1) = rt

\* The row merged from left branch a and right branch b.
BranchMerge(a, b, len) ==
    [hash    |-> [p \in 1 .. (len - CollisionByteLength) |->
                     Xor(a.hash[p + CollisionByteLength],
                         b.hash[p + CollisionByteLength])],
     indices |-> a.indices \o b.indices]

\* C12: every row of the list CollideBranches returns is the merge of two
\* rows of one collision run of its input whose indices are pairwise distinct
\* and whose leading indices truncate to lt and rt, with the history of the
\* row matching lt as its left half and the history of the row matching rt as
\* its right half; every such pair of rows is merged (when lt = rt, in one
\* of the two assignments); and no input row is in the returned list.
C12_BranchesMatchExpected ==
    AfterCollideBranches =>
        LET len == hashLen + CollisionByteLength
            rows == 1 .. Len(roundIn)
        IN  /\ \A q \in 1 .. Len(ic) :
                  \E x, y \in rows :
                      /\ x # y
                      /\ BranchPair(roundIn[x], roundIn[y], ExpectedLeft, ExpectedRight)
                      /\ ic[q] = BranchMerge(roundIn[x], roundIn[y], len)
            /\ \A x, y \in rows :
                  (x # y /\ BranchPair(roundIn[x], roundIn[y], ExpectedLeft, ExpectedRight))
                      => \E q \in 1 .. Len(ic) :
                            \/ ic[q] = BranchMerge(roundIn[x], roundIn[y], len)
                            \/ /\ ExpectedLeft = ExpectedRight
                               /\ ic[q] = BranchMerge(roundIn[y], roundIn[x], len)
            /\ \A q \in 1 .. Len(ic) : \A x \in rows :
                  ic[q].indices # roundIn[x].indices

\* CollideBranches has emitted a merge for two different expected
\* truncations and has discarded a colliding pair of rows with distinct
\* indices that does not match them.
C12_Witness ==
    /\ AfterCollideBranches /\ pc # "cancelled"
    /\ ExpectedLeft # ExpectedRight
    /\ Len(ic) > 0
    /\ \E x, y \in 1 .. Len(roundIn) :
          /\ x < y
          /\ HasCollision(roundIn[x], roundIn[y], CollisionByteLength)
          /\ DistinctIndices(roundIn[x], roundIn[y])
          /\ ~ BranchPair(roundIn[x], roundIn[y], ExpectedLeft, ExpectedRight)
          /\ ~ BranchPair(roundIn[y], roundIn[x], ExpectedLeft, ExpectedRight)

\* Bit q of the number n.
Bit(n, q) == (n \div (2 ^ q)) % 2

\* Slot q of the slot vector is occupied.
Occupied(q) == q < Len(Xopt) /\ Xopt[q + 1].full

\* C13: in the reconstruction of a partial solution the slot vector is a
\* binary counter of the leaves processed: between leaves slot q is occupied
\* exactly when bit q of the number of processed leaves is set, while a leaf
\* is being combined the slots below the one in hand are empty, an occupied
\* slot q holds rows of 2^q indices, after the last leaf the vector has
\* exactly K+1 slots of which only X[K] is occupied (the assertion never
\* fails); solns grows only by the histories of the rows of X[K], and an
\* abandoned partial solution leaves solns unchanged.
C13_SlotsAreBinaryCounter ==
    /\ [](/\ pc # "aborted"
          /\ (solver = "optimised" /\ pc \in { "p_gen", "p_merge", "p_collide",
                                               "p_store", "p_top" }) =>
                /\ \A q \in 0 .. K :
                      Occupied(q) <=>
                          /\ Bit(leaf, q) = 1
                          /\ (pc \in { "p_merge", "p_collide", "p_store" } => q >= rr)
                /\ \A q \in 0 .. K : Occupied(q) =>
                      \A row \in Range(Xopt[q + 1].rows) : Len(row.indices) = 2 ^ q
                /\ Len(Xopt) <= K + 1
                /\ (pc = "p_top") =>
                      /\ leaf = SolnSize
                      /\ Len(Xopt) = K + 1
                      /\ \A q \in 0 .. K : Occupied(q) <=> q = K)
    /\ [][(solver = "optimised" /\ solns' # solns) =>
              /\ pc = "p_top"
              /\ solns' = solns \cup { row.indices : row \in Range(Xopt[K + 1].rows) }]_vars
    /\ [][(solver = "optimised" /\ invalidCount' # invalidCount) =>
              /\ pc = "p_collide"
              /\ solns' = solns
              /\ Xopt' = << >>
              /\ ps' = ps + 1]_vars

\* The last leaf of a partial solution has been processed after an earlier
\* partial solution was abandoned and another one reached the top.
C13_Witness ==
    /\ solver = "optimised" /\ pc = "p_top"
    /\ Len(Xopt) = K + 1 /\ Xopt[K + 1].full
    /\ invalidCount > 0 /\ solns # { }

----------------------------------------------------------------------------
(* Completeness of BasicSolve *)

\* The sequences of 2^K indices below the initial list size that
\* IsValidSolution accepts on base b.
ValidSolutions(b) ==
    { s \in [1 .. SolnSize -> Indices] : IsValidSolution(b, s) }

\* C14: when BasicSolve returns (the probe never having returned true), the
\* set it returns holds every sequence of 2^K indices below the initial list
\* size that IsValidSolution accepts on the same base, and equals the set of
\* those sequences.
C14_BasicSolveComplete ==
    (pc = "idle" /\ solver = "basic" /\ basicRet.returned) =>
        /\ \A s \in ValidSolutions(base) : s \in basicRet.solns
        /\ basicRet.solns = ValidSolutions(base)

\* BasicSolve has returned more than one solution.
C14_Witness ==
    /\ pc = "idle" /\ solver = "basic" /\ basicRet.returned
    /\ Cardinality(ValidSolutions(base)) > 1

----------------------------------------------------------------------------
(* List accesses *)

\* The scan in hand reads and writes list within its bounds: the list is not
\* empty, the cursor is on a row that has a successor, the run starting at
\* the cursor ends within the list, and the write cursor is not beyond the
\* scan cursor.
ScanInBounds(list, clen) ==
    /\ Len(list) >= 1
    /\ i < Len(list) - 1
    /\ i + RunLength(list, i, 1, clen) <= Len(list)
    /\ posFree <= i

\* The state after a reduction round of the running solver that started
\* from the list roundIn.
AfterRound ==
    /\ roundIn # << >>
    /\ \/ pc \in { "b_fsort", "o_fsort", "return" }
       \/ pc = "cancelled" /\ cancelLabel = "RoundEnd"

\* C15: no list is accessed out of bounds and no undefined or aborted state
\* is reached; the scan loops of BasicSolve, OptimisedSolve and
\* CollideBranches run only on non-empty lists and keep their reads and
\* writes below the list size; a round that starts from a singleton list
\* leaves the empty list; and IsValidSolution never reads X[i+1] beyond the
\* list.
C15_AccessesInBounds ==
    /\ ~ oob
    /\ pc \notin { "undefined", "aborted" }
    /\ verdict # "undefined"
    /\ (pc = "b_collide") => ScanInBounds(X, CollisionByteLength)
    /\ (pc = "o_collide") => ScanInBounds(Xt, CollisionByteLength)
    /\ (pc = "b_fcollide") =>
          /\ Len(X) >= 1 /\ i < Len(X) - 1
          /\ i + RunLength(X, i, 1, hashLen) <= Len(X)
    /\ (pc = "o_fcollide") =>
          /\ Len(Xt) >= 1 /\ i < Len(Xt) - 1
          /\ i + RunLength(Xt, i, 1, hashLen) <= Len(Xt)
    /\ (pc = "p_collide") =>
          /\ Len(ic) >= 1
          /\ rti - 2 ^ rr >= 0 /\ rti + 1 <= SolnSize
          /\ ~ CollideBranches(ic, hashLen, CollisionByteLength,
                                CollisionBitLength + 1,
                                partialSolns[ps][rti - 2 ^ rr + 1],
                                partialSolns[ps][rti + 1]).oob
    /\ (pc \in { "b_compact", "o_compact" }) => posFree <= Len(roundIn)
    /\ (AfterRound /\ Len(roundIn) = 1) => (X = << >> /\ Xt = << >>)
    /\ (pc = "verified" /\ verdict = "accept") => Len(soln) = SolnSize

\* A reduction round of BasicSolve has run on a singleton list and has left
\* the empty list.
C15_Witness ==
    /\ solver = "basic" /\ AfterRound /\ pc = "return"
    /\ Len(roundIn) = 1
    /\ X = << >>

====
